---------------------------- MODULE Spec2Model ----------------------------
(***************************************************************************)
(* Annotation / review workflow of the AI Dataset Annotation and Review    *)
(* Platform.  The React front end (services, pages) issues the requests;   *)
(* the workflow engine behind POST /annotations/ and POST /reviews/*       *)
(* applies them to the DataSample status, the Annotation rows and the      *)
(* Review rows, one request-scoped transaction per call, serialized per    *)
(* sample by a row lock.                                                   *)
(***************************************************************************)
EXTENDS Integers, Sequences, FiniteSets, TLC

(* ----------------------------- bounds --------------------------------- *)

\* samples an administrator creates
MaxSamples == 2
\* submitAnnotation / submitReview requests issued in one behaviour
MaxCalls == 4

\* execute calls of one hook instance in one behaviour
MaxExecutes == 3

\* fetchPendingSamples calls of the Annotation page in one behaviour
MaxFetches == 8

(* ------------------------- domain vocabulary -------------------------- *)

\* the concurrent client sessions (browser tabs) that issue requests
Callers == {"c1", "c2"}

\* Actor Directory: getActor(actorId) -> {id, role}
Actors == {"admin1", "annotator1", "reviewer1"}

RoleOf(actor) ==
    CASE actor = "admin1" -> "admin"
      [] actor = "annotator1" -> "annotator"
      [] actor = "reviewer1" -> "reviewer"

\* SampleStatus enum
Statuses == {"pending", "annotated", "reviewed"}

\* AnnotationLabel enum; the label never decides a transition, two of the
\* three values are drawn as inputs
Labels == {"positive", "neutral"}

\* ReviewDecision enum
Decisions == {"approved", "rejected"}

\* feedback texts are character sequences; null is the absent text
Null == [given |-> FALSE, text |-> <<>>]

Text(chars) == [given |-> TRUE, text |-> chars]

\* the feedback values drawn as inputs: null, "", " ", "ok"
FeedbackInputs == {Null, Text(<<>>), Text(<<" ">>), Text(<<"o", "k">>)}

\* String.prototype.trim / strip: drops leading and trailing white space
RECURSIVE TrimLeft(_)
TrimLeft(s) ==
    IF s # <<>> /\ Head(s) = " " THEN TrimLeft(Tail(s)) ELSE s

RECURSIVE TrimRight(_)
TrimRight(s) ==
    IF s # <<>> /\ s[Len(s)] = " " THEN TrimRight(SubSeq(s, 1, Len(s) - 1)) ELSE s

Trim(s) == TrimRight(TrimLeft(s))

\* feedback is present: not null and non-empty after trimming white space
HasFeedback(fb) == fb.given /\ Trim(fb.text) # <<>>

(* ------------------------------ state --------------------------------- *)

VARIABLES
    status,       \* status[s]: the status of data sample s (ids 1..Len)
    annotations,  \* the Annotation rows, by id
    reviews,      \* the Review rows, by id
    call,         \* call[c]: the request session c has in flight, if any
    ncalls,       \* requests issued so far
    reviewPage,   \* the state of the Review page open in the reviewer's browser
    app,          \* the React tree: "starting", "running" or "crashed"
    location,     \* window.location.pathname
    localStorage, \* the item 'token' of localStorage
    auth,         \* AuthProvider's state: user, token, loading
    loginCall,    \* the login() call of the Login page
    apiCall,      \* a request a page has sent through the axios instance
    got401,       \* a 401 response was handled and no login was submitted since
    apiService,   \* a call of apiService.get/post/put/delete and what it returned
    dashboard,    \* the Dashboard page: its useApi state and its request
    hook,         \* a useApi or useMutation instance: its state, and what wrote it last
    executes,     \* the execute calls of hook in start order: pending, or how each settled
    annotationPage \* the Annotation page: its hooks, effects and requests

\* the state of the application shell: AuthProvider, router, axios instance
shell == <<app, location, localStorage, auth, loginCall, apiCall, got401>>

\* the components that use the service layer and the hooks
components == <<apiService, dashboard, hook, executes, annotationPage>>

\* the state of the front end
front == <<reviewPage, shell, components>>

vars == <<status, annotations, reviews, call, ncalls, front>>

\* a session with no request in flight
Idle ==
    [pc |-> "idle", op |-> "none", target |-> 0, actor |-> "none",
     label |-> "none", decision |-> "none", feedback |-> Null,
     sample |-> 0, result |-> "none", ret |-> 0, st0 |-> "none", ver0 |-> 0]

\* call[c].sample is the sample row the transaction of c has read with its
\* lock (0 before that); st0 and ver0 are the status and the version of the
\* request's sample when the request was issued

\* the sample a request is about: the sample itself, or the owning sample of
\* the annotation under review; 0 when the referenced row does not exist
TargetSample(op, target) ==
    IF op = "submitAnnotation"
    THEN IF target \in DOMAIN status THEN target ELSE 0
    ELSE IF target \in DOMAIN annotations THEN annotations[target].sample_id ELSE 0

AnnotationsOf(s) == {a \in DOMAIN annotations : annotations[a].sample_id = s}

ReviewsOf(s) == {r \in DOMAIN reviews : reviews[r].annotation_id \in AnnotationsOf(s)}

\* number of committed writes to sample s: every commit adds exactly one row
Version(s) == Cardinality(AnnotationsOf(s)) + Cardinality(ReviewsOf(s))

\* localStorage.getItem('token') when no token is stored
NoToken == [kind |-> "none", sub |-> "none", exp |-> "none"]

\* AuthProvider as mounted: useState(null), useState(true), useState(null)
AuthProviderMounted ==
    [user |-> "null", token |-> NoToken, loading |-> TRUE, storedToken |-> NoToken]

\* no login() call is running
NoLogin == [pc |-> "idle", account |-> "none"]

\* no request of a page is in flight
NoApiCall == [pc |-> "idle", token |-> NoToken]

\* the Review page as mounted: useState(null), useState(''), no message
ReviewPageMounted == [selectedAnnotation |-> 0, feedback |-> <<>>, message |-> ""]

\* no call of apiService is running
NoRequest == [pc |-> "idle", method |-> "none", result |-> [pending |-> TRUE]]

\* useApi / useMutation as mounted: useState(null), useState(false),
\* useState(null), useState(false); data null is <<>>
HookMounted == [data |-> <<>>, loading |-> FALSE, error |-> "null", success |-> FALSE]

\* no component that uses the hook is mounted
HookUnmounted == [kind |-> "none", state |-> HookMounted, last |-> "none"]

\* the Dashboard page is not mounted
DashboardUnmounted == [pc |-> "unmounted", stats |-> HookMounted, http |-> 0]

\* useMessage as mounted: no message shown
NoMessage == [message |-> "", type |-> "info", visible |-> FALSE]

\* the Annotation page is not mounted.  samples and submit are the states of
\* its useApi and useMutation, effects says that a render was committed whose
\* effects have not run yet, fetching counts the getSamplesByStatus requests
\* in flight and fetches all those sent
AnnotationUnmounted ==
    [pc |-> "unmounted", selectedSample |-> 0, samples |-> HookMounted,
     submit |-> HookMounted, shown |-> NoMessage, effects |-> FALSE,
     fetching |-> 0, fetches |-> 0]

Init ==
    /\ status = <<>>
    /\ annotations = <<>>
    /\ reviews = <<>>
    /\ call = [c \in Callers |-> Idle]
    /\ ncalls = 0
    /\ reviewPage = ReviewPageMounted
    /\ app = "starting"
    /\ location = "/"
    /\ localStorage = NoToken
    /\ auth = AuthProviderMounted
    /\ loginCall = NoLogin
    /\ apiCall = NoApiCall
    /\ got401 = FALSE
    /\ apiService = NoRequest
    /\ dashboard = DashboardUnmounted
    /\ hook = HookUnmounted
    /\ executes = <<>>
    /\ annotationPage = AnnotationUnmounted

(* ------------------------- workflow engine ---------------------------- *)

\* role capability: Submit Annotation is the annotator's, Review Annotation
\* the reviewer's
CanSubmitAnnotations(role) == role = "annotator"

\* (mutant) the admin inherits the capability of the reviewer
CanReviewAnnotationsInherited(role) == role \in {"reviewer", "admin"}

CanReviewAnnotations(role) == role = "reviewer"

\* status transitions:
\*   PENDING --[annotator submits]--> ANNOTATED
\*   ANNOTATED --[reviewer approves]--> REVIEWED
\*   ANNOTATED --[reviewer rejects]--> PENDING
\* (mutant) the status is written as the README prints it, not as the enum
\* value
StatusAfterAnnotationAsPrinted == "ANNOTATED"

StatusAfterAnnotation == "annotated"

\* (mutant) a rejection leaves the sample Annotated
StatusAfterReviewRejectKeepsAnnotated(decision) ==
    IF decision = "approved" THEN "reviewed" ELSE "annotated"

\* (mutant) every review closes the sample
StatusAfterReviewAlwaysReviewed(decision) == "reviewed"

StatusAfterReview(decision) ==
    IF decision = "approved" THEN "reviewed" ELSE "pending"

\* (mutant) a review is accepted on any sample that was annotated before,
\* a reviewed one included
StatusAllowsReviewOfReviewed(op, st) ==
    IF op = "submitAnnotation" THEN st = "pending" ELSE st # "pending"

\* (mutant) an annotation is accepted on any sample not yet reviewed
StatusAllowsReannotation(op, st) ==
    IF op = "submitAnnotation" THEN st # "reviewed" ELSE st = "annotated"

\* (mutant) a review is accepted whatever the status of the sample
StatusAllowsAnyReview(op, st) ==
    IF op = "submitAnnotation" THEN st = "pending" ELSE TRUE

\* the precondition on the status of the sample: an annotation is accepted
\* on a PENDING sample, a review on an ANNOTATED one
StatusAllows(op, st) ==
    IF op = "submitAnnotation" THEN st = "pending" ELSE st = "annotated"

\* session c holds the row lock of sample s: its transaction has read the
\* row with the lock and has not yet committed or rolled back
HoldsLock(c, s) == call[c].pc \in {"locked", "inserted"} /\ call[c].sample = s

\* (mutant) no row lock is taken: a read never waits
LockFreeNoLocking(c, s) == TRUE

\* the row lock of sample s is free for session c
LockFree(c, s) == \A d \in Callers \ {c} : ~HoldsLock(d, s)

\* (mutant) the rollback of an interrupted submitAnnotation loses the status
\* write only: the inserted Annotation row stays
FailedKeepsInsertedRow(c, err) ==
    /\ call' = [call EXCEPT ![c].pc = "done", ![c].result = err]
    /\ annotations' =
        IF call[c].pc = "inserted" /\ call[c].op = "submitAnnotation"
        THEN Append(annotations, [sample_id |-> call[c].sample,
                                  annotator_id |-> call[c].actor,
                                  label |-> call[c].label])
        ELSE annotations
    /\ UNCHANGED <<status, reviews>>

\* a request answered with an error: nothing is written
Failed(c, err) ==
    /\ call' = [call EXCEPT ![c].pc = "done", ![c].result = err]
    /\ UNCHANGED <<status, annotations, reviews>>

\* the request record of a newly issued call, with the state of its sample
\* at the time of the call
Request(op, target, actor, label, decision, feedback) ==
    [pc |-> "waiting", op |-> op, target |-> target, actor |-> actor,
     label |-> label, decision |-> decision, feedback |-> feedback,
     sample |-> 0, result |-> "none", ret |-> 0,
     st0 |-> IF TargetSample(op, target) = 0 THEN "none"
             ELSE status[TargetSample(op, target)],
     ver0 |-> IF TargetSample(op, target) = 0 THEN 0
              ELSE Version(TargetSample(op, target))]

\* the check made at the engine boundary, before any read of the store:
\* the error the request is refused with, or "none"
BoundaryError(req) ==
    IF req.op = "submitAnnotation"
    THEN IF CanSubmitAnnotations(RoleOf(req.actor)) THEN "none" ELSE "Forbidden"
    ELSE IF ~CanReviewAnnotations(RoleOf(req.actor)) THEN "Forbidden"
         ELSE IF req.decision = "rejected" /\ ~HasFeedback(req.feedback)
              THEN "ValidationError"
              ELSE "none"

Issue(c, req) ==
    /\ call[c].pc = "idle"
    /\ ncalls < MaxCalls
    /\ ncalls' = ncalls + 1
    /\ call' = [call EXCEPT ![c] =
            IF BoundaryError(req) = "none" THEN req
            ELSE [req EXCEPT !.pc = "done", !.result = BoundaryError(req),
                             !.st0 = "none", !.ver0 = 0]]
    /\ UNCHANGED <<status, annotations, reviews>>

(* ------------------------------ actions ------------------------------- *)

\* an administrator adds a data sample: created with status PENDING
createSample ==
    /\ Len(status) < MaxSamples
    /\ status' = Append(status, "pending")
    /\ UNCHANGED <<annotations, reviews, call, ncalls, front>>

\* annotationService.submitAnnotation({sample_id, label}): POST /annotations/
submitAnnotation(c) ==
    \E sid \in 1..(Len(status) + 1), actor \in Actors, label \in Labels :
        /\ Issue(c, Request("submitAnnotation", sid, actor, label, "none", Null))
        /\ UNCHANGED front

\* reviewService.approveAnnotation(annotationId, feedback = null):
\* POST /reviews/approve
approveAnnotation(c) ==
    \E aid \in 1..(Len(annotations) + 1), actor \in Actors, fb \in FeedbackInputs :
        /\ Issue(c, Request("submitReview", aid, actor, "none", "approved", fb))
        /\ UNCHANGED front

\* reviewService.rejectAnnotation(annotationId, feedback): POST /reviews/reject
rejectAnnotation(c) ==
    \E aid \in 1..(Len(annotations) + 1), actor \in Actors, fb \in FeedbackInputs :
        /\ Issue(c, Request("submitReview", aid, actor, "none", "rejected", fb))
        /\ UNCHANGED front

\* the transaction starts: the referenced row is looked up and the sample
\* row is read with its lock; the call waits while another holds the lock
ReadWithLock(c) ==
    /\ call[c].pc = "waiting"
    /\ LET s == TargetSample(call[c].op, call[c].target) IN
        IF s = 0 THEN Failed(c, "NotFound")
        ELSE /\ LockFree(c, s)
             /\ IF ~StatusAllows(call[c].op, status[s])
                THEN Failed(c, "InvalidState")
                ELSE /\ call' = [call EXCEPT ![c].pc = "locked", ![c].sample = s]
                     /\ UNCHANGED <<status, annotations, reviews>>
    /\ UNCHANGED <<ncalls, front>>

\* first write of the transaction: the Annotation / Review row is inserted,
\* not yet visible outside the transaction
InsertRow(c) ==
    /\ call[c].pc = "locked"
    /\ call' = [call EXCEPT ![c].pc = "inserted"]
    /\ UNCHANGED <<status, annotations, reviews, ncalls, front>>

\* (mutant) the inserted Annotation row is lost at commit
CommittedAnnotationsNoInsert(c) == annotations

\* (mutant) a rejecting review deletes the latest Annotation row
CommittedAnnotationsRejectDeletes(c) ==
    IF call[c].op = "submitAnnotation"
    THEN Append(annotations, [sample_id |-> call[c].sample,
                              annotator_id |-> call[c].actor,
                              label |-> call[c].label])
    ELSE IF call[c].decision = "rejected"
         THEN SubSeq(annotations, 1, Len(annotations) - 1)
         ELSE annotations

\* the rows of the store after the transaction of session c commits
CommittedAnnotations(c) ==
    IF call[c].op = "submitAnnotation"
    THEN Append(annotations, [sample_id |-> call[c].sample,
                              annotator_id |-> call[c].actor,
                              label |-> call[c].label])
    ELSE annotations

CommittedReviews(c) ==
    IF call[c].op = "submitReview"
    THEN Append(reviews, [annotation_id |-> call[c].target,
                          reviewer_id |-> call[c].actor,
                          decision |-> call[c].decision,
                          feedback |-> call[c].feedback])
    ELSE reviews

\* (mutant) the status write is not restricted to the sample of the request
CommittedStatusOfAllSamples(c) ==
    [t \in DOMAIN status |->
        IF call[c].op = "submitAnnotation" THEN StatusAfterAnnotation
        ELSE StatusAfterReview(call[c].decision)]

CommittedStatus(c) ==
    [status EXCEPT ![call[c].sample] =
        IF call[c].op = "submitAnnotation" THEN StatusAfterAnnotation
        ELSE StatusAfterReview(call[c].decision)]

\* second write and commit: the status is set and both writes become
\* visible as one unit; the created row is returned
Commit(c) ==
    /\ call[c].pc = "inserted"
    /\ status' = CommittedStatus(c)
    /\ annotations' = CommittedAnnotations(c)
    /\ reviews' = CommittedReviews(c)
    /\ call' = [call EXCEPT ![c].pc = "done", ![c].result = "OK",
                            ![c].ret = IF call[c].op = "submitAnnotation"
                                       THEN Len(annotations) + 1
                                       ELSE Len(reviews) + 1]
    /\ UNCHANGED <<ncalls, front>>

\* the wait for a row lock held by a concurrent transaction times out: the
\* persistence layer's error is mapped to the transient failure
LockTimeout(c) ==
    /\ call[c].pc = "waiting"
    /\ LET s == TargetSample(call[c].op, call[c].target) IN
        /\ s # 0
        /\ ~LockFree(c, s)
    /\ Failed(c, "TransientStoreError")
    /\ UNCHANGED <<ncalls, front>>

\* (mutant) the engine retries an interrupted transaction by itself instead
\* of answering the call
InterruptRetries(c) ==
    /\ call[c].pc = "inserted"
    /\ call' = [call EXCEPT ![c].pc = "waiting", ![c].sample = 0]
    /\ UNCHANGED <<status, annotations, reviews, ncalls, front>>

\* the transaction is interrupted between its two writes (the connection
\* to the store is lost): it is rolled back and the call fails
Interrupt(c) ==
    /\ call[c].pc = "inserted"
    /\ Failed(c, "TransientStoreError")
    /\ UNCHANGED <<ncalls, front>>

\* the caller takes the answer; the session is free for its next request
Return(c) ==
    /\ call[c].pc = "done"
    /\ call' = [call EXCEPT ![c] = Idle]
    /\ UNCHANGED <<status, annotations, reviews, ncalls, front>>

\* the engine with a store that answers every read and write
Next ==
    \/ createSample
    \/ \E c \in Callers : submitAnnotation(c)
    \/ \E c \in Callers : approveAnnotation(c)
    \/ \E c \in Callers : rejectAnnotation(c)
    \/ \E c \in Callers : ReadWithLock(c)
    \/ \E c \in Callers : InsertRow(c)
    \/ \E c \in Callers : Commit(c)
    \/ \E c \in Callers : Return(c)

Spec == Init /\ [][Next]_vars

\* the engine with the transient failures of the store: lock waits that
\* time out and transactions interrupted between their writes
NextFaults ==
    \/ createSample
    \/ \E c \in Callers : submitAnnotation(c)
    \/ \E c \in Callers : approveAnnotation(c)
    \/ \E c \in Callers : rejectAnnotation(c)
    \/ \E c \in Callers : ReadWithLock(c)
    \/ \E c \in Callers : InsertRow(c)
    \/ \E c \in Callers : Commit(c)
    \/ \E c \in Callers : LockTimeout(c)
    \/ \E c \in Callers : Interrupt(c)
    \/ \E c \in Callers : Return(c)

SpecFaults == Init /\ [][NextFaults]_vars

\* the scheduling of the store: a wait for a row lock ends, with the lock or
\* with the timeout; a transaction that holds its lock goes on to its write
\* and then commits or is rolled back
Fairness ==
    \A c \in Callers :
        /\ WF_vars(ReadWithLock(c) \/ LockTimeout(c))
        /\ WF_vars(InsertRow(c))
        /\ WF_vars(Commit(c) \/ Interrupt(c))

\* the calls that contend for the samples: an annotator's submitAnnotation
\* and a reviewer's approval or rejection (with feedback), on any sample or
\* annotation, an absent one included
ContendingAnnotation(c) ==
    \E sid \in 1..(Len(status) + 1) :
        /\ Issue(c, Request("submitAnnotation", sid, "annotator1", "positive",
                            "none", Null))
        /\ UNCHANGED front

ContendingReview(c) ==
    \E aid \in 1..(Len(annotations) + 1), decision \in Decisions :
        /\ Issue(c, Request("submitReview", aid, "reviewer1", "none", decision,
                            IF decision = "rejected" THEN Text(<<"o", "k">>) ELSE Null))
        /\ UNCHANGED front

NextContention ==
    \/ createSample
    \/ \E c \in Callers : ContendingAnnotation(c)
    \/ \E c \in Callers : ContendingReview(c)
    \/ \E c \in Callers : ReadWithLock(c)
    \/ \E c \in Callers : InsertRow(c)
    \/ \E c \in Callers : Commit(c)
    \/ \E c \in Callers : LockTimeout(c)
    \/ \E c \in Callers : Interrupt(c)
    \/ \E c \in Callers : Return(c)

\* contending calls over a store with transient failures, fairly scheduled
SpecContention == Init /\ [][NextContention]_vars /\ Fairness

(* ----------------------- the round trip scenario ----------------------- *)

\* no request is in flight
Quiescent == \A c \in Callers : call[c].pc \in {"idle", "done"}

\* the sample of the scenario: the one its first annotation was made on
RoundTripSample == IF annotations = <<>> THEN 0 ELSE annotations[1].sample_id

\* steps 1 and 3: the annotator submits a label for the sample
RoundTripAnnotate(c) ==
    /\ Quiescent
    /\ ncalls \in {0, 2}
    /\ \E sid \in DOMAIN status, label \in Labels :
        /\ ncalls = 2 => sid = RoundTripSample
        /\ Issue(c, Request("submitAnnotation", sid, "annotator1", label, "none", Null))
        /\ UNCHANGED front

\* step 2: the reviewer rejects the annotation, with feedback
RoundTripReject(c) ==
    /\ Quiescent
    /\ ncalls = 1
    /\ \E aid \in AnnotationsOf(RoundTripSample) :
       \E fb \in {f \in FeedbackInputs : HasFeedback(f)} :
            /\ Issue(c, Request("submitReview", aid, "reviewer1", "none", "rejected", fb))
            /\ UNCHANGED front

\* step 4: the reviewer approves an annotation of the sample, no feedback
RoundTripApprove(c) ==
    /\ Quiescent
    /\ ncalls = 3
    /\ \E aid \in AnnotationsOf(RoundTripSample) :
            /\ Issue(c, Request("submitReview", aid, "reviewer1", "none", "approved", Null))
            /\ UNCHANGED front

NextRoundTrip ==
    \/ createSample
    \/ \E c \in Callers : RoundTripAnnotate(c)
    \/ \E c \in Callers : RoundTripReject(c)
    \/ \E c \in Callers : RoundTripApprove(c)
    \/ \E c \in Callers : ReadWithLock(c)
    \/ \E c \in Callers : InsertRow(c)
    \/ \E c \in Callers : Commit(c)
    \/ \E c \in Callers : Return(c)

SpecRoundTrip == Init /\ [][NextRoundTrip]_vars

(* --------------------------- the Review page --------------------------- *)

\* the session of the browser in which the Review page is open
ReviewPageSession == "c1"

\* the users the /review route renders the page for:
\* allowedRoles={['reviewer', 'admin']}
ReviewPageUsers == {a \in Actors : RoleOf(a) \in {"reviewer", "admin"}}

\* the texts typed into the feedback textarea: "", " ", "ok"
FeedbackTexts == {<<>>, <<" ">>, <<"o", "k">>}

\* (mutant) the text is tested without trimming: !feedback
FeedbackMissingNoTrim(feedback) == feedback = <<>>

\* !feedback.trim()
FeedbackMissing(feedback) == Trim(feedback) = <<>>

\* feedback || null
FeedbackOrNull(feedback) == IF feedback = <<>> THEN Null ELSE Text(feedback)

\* a click on an annotation of the list: setSelectedAnnotation(annotation),
\* setFeedback(''); the setMessage('') that follows is not defined in the
\* component and throws, the message stays as it is
selectAnnotation ==
    /\ \E a \in DOMAIN annotations :
        reviewPage' = [reviewPage EXCEPT !.selectedAnnotation = a, !.feedback = <<>>]
    /\ UNCHANGED <<status, annotations, reviews, call, ncalls, shell, components>>

\* the textarea's onChange; the form is rendered when an annotation is selected
setFeedback ==
    /\ reviewPage.selectedAnnotation # 0
    /\ \E text \in FeedbackTexts : reviewPage' = [reviewPage EXCEPT !.feedback = text]
    /\ UNCHANGED <<status, annotations, reviews, call, ncalls, shell, components>>

\* Review.handleApprove: approveAnnotation(selectedAnnotation.id, feedback || null)
handleApprove ==
    /\ reviewPage.selectedAnnotation # 0
    /\ UNCHANGED <<shell, components>>
    /\ reviewPage' = [reviewPage EXCEPT !.message = ""]
    /\ \E actor \in ReviewPageUsers :
        Issue(ReviewPageSession,
              Request("submitReview", reviewPage.selectedAnnotation, actor, "none",
                      "approved", FeedbackOrNull(reviewPage.feedback)))

\* Review.handleReject: without a selection or with a blank feedback the
\* error is shown and nothing is sent; else
\* rejectAnnotation(selectedAnnotation.id, feedback)
handleReject ==
    /\ call[ReviewPageSession].pc = "idle"
    /\ UNCHANGED <<shell, components>>
    /\ IF reviewPage.selectedAnnotation = 0 \/ FeedbackMissing(reviewPage.feedback)
       THEN /\ reviewPage' = [reviewPage EXCEPT
                                !.message = "Feedback is required for rejection"]
            /\ UNCHANGED <<status, annotations, reviews, call, ncalls>>
       ELSE /\ reviewPage' = [reviewPage EXCEPT !.message = ""]
            /\ \E actor \in ReviewPageUsers :
                Issue(ReviewPageSession,
                      Request("submitReview", reviewPage.selectedAnnotation, actor,
                              "none", "rejected", Text(reviewPage.feedback)))

\* the answer reaches the page: on success the message is shown and the
\* form is cleared, on an error the error is shown
ReviewPageReturn ==
    /\ call[ReviewPageSession].pc = "done"
    /\ reviewPage' =
        IF call[ReviewPageSession].result = "OK"
        THEN [selectedAnnotation |-> 0, feedback |-> <<>>,
              message |-> IF call[ReviewPageSession].decision = "approved"
                          THEN "Annotation approved successfully!"
                          ELSE "Annotation rejected successfully!"]
        ELSE [reviewPage EXCEPT !.message = call[ReviewPageSession].result]
    /\ call' = [call EXCEPT ![ReviewPageSession] = Idle]
    /\ UNCHANGED <<status, annotations, reviews, ncalls, shell, components>>

\* the Review page in one session, any client of the API in the others
NextReviewPage ==
    \/ createSample
    \/ \E c \in Callers \ {ReviewPageSession} : submitAnnotation(c)
    \/ \E c \in Callers \ {ReviewPageSession} : approveAnnotation(c)
    \/ \E c \in Callers \ {ReviewPageSession} : rejectAnnotation(c)
    \/ selectAnnotation
    \/ setFeedback
    \/ handleApprove
    \/ handleReject
    \/ ReviewPageReturn
    \/ \E c \in Callers : ReadWithLock(c)
    \/ \E c \in Callers : InsertRow(c)
    \/ \E c \in Callers : Commit(c)
    \/ \E c \in Callers \ {ReviewPageSession} : Return(c)

SpecReviewPage == Init /\ [][NextReviewPage]_vars

(* ------------------- tokens (frontend/src/utils/jwt.js) ---------------- *)

\* a JWT issued to actor; exp is "past" or "future" with respect to Date.now()
Jwt(actor, exp) == [kind |-> "jwt", sub |-> actor, exp |-> exp]

\* a stored string that is not of the form header.payload.signature
Garbage == [kind |-> "garbage", sub |-> "none", exp |-> "none"]

\* what localStorage may hold when the application is opened
StoredTokens ==
    {NoToken, Garbage} \cup {Jwt(a, e) : a \in Actors, e \in {"past", "future"}}

\* the null payload
NoPayload == [sub |-> "none", role |-> "none", exp |-> "none"]

\* decodeToken: null for no token and for a token not of three parts
decodeToken(token) ==
    IF token.kind = "jwt"
    THEN [sub |-> token.sub, role |-> RoleOf(token.sub), exp |-> token.exp]
    ELSE NoPayload

\* (mutant) only an undecodable token counts as expired, exp is not read
isTokenExpiredExpIgnored(token) == decodeToken(token) = NoPayload

\* isTokenExpired: true for an undecodable token too
isTokenExpired(token) ==
    IF decodeToken(token) = NoPayload \/ decodeToken(token).exp = "none"
    THEN TRUE
    ELSE decodeToken(token).exp = "past"

\* getUserFromToken: the user of the payload, "null" if undecodable or expired
getUserFromToken(token) ==
    IF decodeToken(token) = NoPayload THEN "null"
    ELSE IF isTokenExpired(token) THEN "null"
    ELSE decodeToken(token).sub

(* ------------------ AuthProvider, ProtectedRoute, App ------------------ *)

\* value.isAuthenticated: !!user && !!token
isAuthenticated == auth.user # "null" /\ auth.token # NoToken

\* user?.role
UserRole == IF auth.user = "null" THEN "undefined" ELSE RoleOf(auth.user)

hasRole(role) == UserRole = role

hasAnyRole(roles) == UserRole \in roles

\* what a route element renders: a page, a <Navigate>, or the loading text
Page(name) == [kind |-> "page", name |-> name]

Navigate(to) == [kind |-> "navigate", name |-> to]

Loading == [kind |-> "loading", name |-> "Loading..."]

Nothing == [kind |-> "none", name |-> "none"]

\* (mutant) the route guard does not look at the authentication
ProtectedRouteRolesOnly(children, requiredRole, allowedRoles) ==
    IF auth.loading THEN Loading
    ELSE IF allowedRoles # {}
         THEN IF ~hasAnyRole(allowedRoles) /\ auth.user # "null"
              THEN Navigate("/dashboard") ELSE children
         ELSE children

\* ProtectedRoute({children, requiredRole = null, allowedRoles = null})
ProtectedRoute(children, requiredRole, allowedRoles) ==
    IF auth.loading THEN Loading
    ELSE IF ~isAuthenticated \/ auth.user = "null" THEN Navigate("/login")
    ELSE IF allowedRoles # {}
         THEN IF ~hasAnyRole(allowedRoles) THEN Navigate("/dashboard") ELSE children
         ELSE IF requiredRole # "null"
              THEN IF ~hasRole(requiredRole) THEN Navigate("/dashboard") ELSE children
              ELSE children

\* the paths of the routes under "/" and a path no route matches
ProtectedPaths == {"/", "/dashboard", "/projects", "/annotation", "/review", "/analytics"}

Paths == {"/login", "/register", "/other"} \cup ProtectedPaths

ProtectedPages == {"Dashboard", "Projects", "Annotation", "Review", "Analytics"}

\* the child routes of "/", rendered in the Outlet of Layout
Outlet(path) ==
    CASE path = "/" -> Navigate("/dashboard")
      [] path = "/dashboard" -> Page("Dashboard")
      [] path = "/projects" -> Page("Projects")
      [] path = "/annotation" ->
            ProtectedRoute(Page("Annotation"), "null", {"annotator", "admin"})
      [] path = "/review" ->
            ProtectedRoute(Page("Review"), "null", {"reviewer", "admin"})
      [] path = "/analytics" -> ProtectedRoute(Page("Analytics"), "admin", {})

\* App: the element of the route that matches the location
App ==
    IF location = "/login"
    THEN IF isAuthenticated THEN Navigate("/dashboard") ELSE Page("Login")
    ELSE IF location = "/register"
    THEN IF isAuthenticated THEN Navigate("/dashboard") ELSE Page("Register")
    ELSE IF location \in ProtectedPaths
    THEN ProtectedRoute(Outlet(location), "null", {})
    ELSE Navigate("/dashboard")

\* what the browser shows: nothing when the React tree was unmounted
View == IF app = "crashed" THEN Nothing ELSE App

\* a full page load of path p: the scripts start anew, localStorage stays
PageLoad(p) ==
    /\ app' = "starting"
    /\ location' = p
    /\ auth' = AuthProviderMounted
    /\ loginCall' = NoLogin
    /\ apiCall' = NoApiCall

\* AuthProvider's mount effect: the auth state is initialized from
\* localStorage, read into the effect's storedToken.  With a stored token that decodes and is not expired the
\* effect calls setUser and setToken and then reads api.defaults, but the
\* module imports no api: the ReferenceError thrown in the effect unmounts
\* the tree, fetchCurrentUser is never called
AuthProviderInit ==
    /\ app = "starting"
    /\ IF localStorage = NoToken
       THEN /\ auth' = [auth EXCEPT !.loading = FALSE, !.storedToken = localStorage]
            /\ app' = "running"
            /\ UNCHANGED localStorage
       ELSE IF isTokenExpired(localStorage)
       THEN /\ localStorage' = NoToken
            /\ auth' = [auth EXCEPT !.loading = FALSE, !.storedToken = localStorage]
            /\ app' = "running"
       ELSE IF getUserFromToken(localStorage) # "null"
       THEN /\ auth' = [auth EXCEPT !.user = getUserFromToken(localStorage),
                                    !.token = localStorage,
                                    !.storedToken = localStorage]
            /\ app' = "crashed"
            /\ UNCHANGED localStorage
       ELSE /\ localStorage' = NoToken
            /\ auth' = [auth EXCEPT !.loading = FALSE, !.storedToken = localStorage]
            /\ app' = "running"
    /\ UNCHANGED <<location, loginCall, apiCall, got401>>
    /\ UNCHANGED <<status, annotations, reviews, call, ncalls, reviewPage, components>>

\* the user opens a URL or reloads the page
load ==
    /\ \E p \in Paths : PageLoad(p)
    /\ UNCHANGED <<localStorage, got401>>
    /\ UNCHANGED <<status, annotations, reviews, call, ncalls, reviewPage, components>>

\* a navigation inside the application: a <Link>, or the history
navigate ==
    /\ app = "running"
    /\ \E p \in Paths : location' = p
    /\ UNCHANGED <<app, localStorage, auth, loginCall, apiCall, got401>>
    /\ UNCHANGED <<status, annotations, reviews, call, ncalls, reviewPage, components>>

\* the effect of a rendered <Navigate to=... replace />
redirect ==
    /\ View.kind = "navigate"
    /\ location' = View.name
    /\ UNCHANGED <<app, localStorage, auth, loginCall, apiCall, got401>>
    /\ UNCHANGED <<status, annotations, reviews, call, ncalls, reviewPage, components>>

\* the response interceptor on a 401: the token is removed from
\* localStorage; unless the path is /login, window.location.href = '/login'
\* loads the page anew
On401 ==
    /\ localStorage' = NoToken
    /\ got401' = TRUE

\* the accounts a login is tried with: the users, and wrong credentials
Accounts == Actors \cup {"nobody"}

\* Login.handleSubmit: login(email, password) posts /auth/login
LoginHandleSubmit ==
    /\ app = "running"
    /\ View = Page("Login")
    /\ loginCall = NoLogin
    /\ \E account \in Accounts : loginCall' = [pc |-> "login", account |-> account]
    /\ got401' = FALSE
    /\ UNCHANGED <<app, location, localStorage, auth, apiCall>>
    /\ UNCHANGED <<status, annotations, reviews, call, ncalls, reviewPage, components>>

\* login: /auth/login has answered with a token; it is stored, the user is
\* taken from it, and fetchCurrentUser gets /auth/me with it
loginSucceeds ==
    /\ loginCall.pc = "login"
    /\ loginCall.account \in Actors
    /\ LET access_token == Jwt(loginCall.account, "future") IN
        /\ localStorage' = access_token
        /\ auth' = [auth EXCEPT
                      !.token = access_token,
                      !.user = IF getUserFromToken(access_token) # "null"
                               THEN getUserFromToken(access_token) ELSE @]
    /\ loginCall' = [loginCall EXCEPT !.pc = "me"]
    /\ got401' = FALSE
    /\ UNCHANGED <<app, location, apiCall>>
    /\ UNCHANGED <<status, annotations, reviews, call, ncalls, reviewPage, components>>

\* login: /auth/login has answered 401 (the credentials are rejected) or
\* has failed otherwise: login throws, Login.handleSubmit shows the error
loginFails ==
    /\ loginCall.pc = "login"
    /\ \E http \in {"401", "error"} :
        IF http = "401"
        THEN /\ On401
             /\ IF location # "/login"
                THEN PageLoad("/login")
                ELSE /\ loginCall' = NoLogin
                     /\ UNCHANGED <<app, location, auth, apiCall>>
        ELSE /\ loginCall' = NoLogin
             /\ UNCHANGED <<app, location, localStorage, auth, apiCall, got401>>
    /\ UNCHANGED <<status, annotations, reviews, call, ncalls, reviewPage, components>>

\* fetchCurrentUser inside login: /auth/me has answered.  On success the
\* user is set; on a failure the token is removed and user and token are
\* cleared.  Either way login returns and Login.handleSubmit navigates to
\* /dashboard
fetchCurrentUser ==
    /\ loginCall.pc = "me"
    /\ \E http \in {"200", "401", "error"} :
        IF http = "200"
        THEN /\ auth' = [auth EXCEPT !.user = loginCall.account, !.loading = FALSE]
             /\ location' = "/dashboard"
             /\ loginCall' = NoLogin
             /\ UNCHANGED <<app, localStorage, apiCall, got401>>
        ELSE IF http = "401" /\ location # "/login"
        THEN /\ On401
             /\ PageLoad("/login")
        ELSE /\ localStorage' = NoToken
             /\ got401' = (got401 \/ http = "401")
             /\ auth' = [auth EXCEPT !.user = "null", !.token = NoToken,
                                     !.loading = FALSE]
             /\ location' = "/dashboard"
             /\ loginCall' = NoLogin
             /\ UNCHANGED <<app, apiCall>>
    /\ UNCHANGED <<status, annotations, reviews, call, ncalls, reviewPage, components>>

\* Layout.handleLogout: logout(), navigate('/login')
logout ==
    /\ app = "running"
    /\ View.kind = "page" /\ View.name \in ProtectedPages
    /\ localStorage' = NoToken
    /\ auth' = [auth EXCEPT !.user = "null", !.token = NoToken]
    /\ location' = "/login"
    /\ UNCHANGED <<app, loginCall, apiCall, got401>>
    /\ UNCHANGED <<status, annotations, reviews, call, ncalls, reviewPage, components>>

\* a page sends a request through the axios instance; the request
\* interceptor attaches the token localStorage holds
apiRequest ==
    /\ app = "running"
    /\ View.kind = "page" /\ View.name \in ProtectedPages
    /\ apiCall = NoApiCall
    /\ apiCall' = [pc |-> "sent", token |-> localStorage]
    /\ UNCHANGED <<app, location, localStorage, auth, loginCall, got401>>
    /\ UNCHANGED <<status, annotations, reviews, call, ncalls, reviewPage, components>>

\* the response to the request of a page: 200 only with a token, 401, or
\* another failure
apiResponse ==
    /\ apiCall.pc = "sent"
    /\ \E http \in {"200", "401", "error"} :
        /\ http = "200" => apiCall.token.kind = "jwt"
        /\ IF http = "401"
           THEN /\ On401
                /\ IF location # "/login"
                   THEN PageLoad("/login")
                   ELSE /\ apiCall' = NoApiCall
                        /\ UNCHANGED <<app, location, auth, loginCall>>
           ELSE /\ apiCall' = NoApiCall
                /\ UNCHANGED <<app, location, localStorage, auth, loginCall, got401>>
    /\ UNCHANGED <<status, annotations, reviews, call, ncalls, reviewPage, components>>

\* the application as opened with any stored token
InitApp ==
    /\ status = <<>>
    /\ annotations = <<>>
    /\ reviews = <<>>
    /\ call = [c \in Callers |-> Idle]
    /\ ncalls = 0
    /\ reviewPage = ReviewPageMounted
    /\ app = "starting"
    /\ location \in Paths
    /\ localStorage \in StoredTokens
    /\ auth = AuthProviderMounted
    /\ loginCall = NoLogin
    /\ apiCall = NoApiCall
    /\ got401 = FALSE
    /\ apiService = NoRequest
    /\ dashboard = DashboardUnmounted
    /\ hook = HookUnmounted
    /\ executes = <<>>
    /\ annotationPage = AnnotationUnmounted

NextApp ==
    \/ AuthProviderInit
    \/ load
    \/ navigate
    \/ redirect
    \/ LoginHandleSubmit
    \/ loginSucceeds
    \/ loginFails
    \/ fetchCurrentUser
    \/ logout
    \/ apiRequest
    \/ apiResponse

SpecApp == InitApp /\ [][NextApp]_vars

\* the application shell with the scheduling React gives: the mount effect
\* of a mounted AuthProvider runs
SpecAppStart == InitApp /\ [][NextApp]_vars /\ WF_vars(AuthProviderInit)

(* ------- service layer (services/apiService.js, utils/errorHandler.js) -- *)

\* response.data.detail of an error body: absent, a string, or the array
\* FastAPI sends for request validation errors (its items are the msg texts)
NoDetail == [t |-> "undefined", s |-> "", items |-> <<>>]

StringDetail(s) == [t |-> "string", s |-> s, items |-> <<>>]

ArrayDetail(items) == [t |-> "array", s |-> "", items |-> items]

Details ==
    {NoDetail, StringDetail(""), StringDetail("Sample not found"),
     ArrayDetail(<<>>), ArrayDetail(<<"field required">>)}

\* error.response.data: undefined (no body), or an object with detail
\* and message ("" when the body has no message)
NoData == [present |-> FALSE, detail |-> NoDetail, message |-> ""]

ErrorBodies ==
    {NoData} \cup
    {[present |-> TRUE, detail |-> d, message |-> m] : d \in Details, m \in {"", "boom"}}

\* the status codes axios resolves with and those it rejects with
SuccessStatuses == {200, 201, 204}

ErrorStatuses == {400, 401, 403, 404, 409, 418, 422, 500, 502, 503}

\* what the axios instance settles a request with: a response, or an error
\* with a response (4xx, 5xx), with a request only (network error, timeout)
\* or with neither (the request could not be set up)
NoResponse == [status |-> 0, data |-> NoData]

AxiosResponses ==
    {[kind |-> "response", response |-> [status |-> st, data |-> NoData],
      request |-> TRUE] : st \in SuccessStatuses}

AxiosErrors ==
    {[kind |-> "error", response |-> [status |-> st, data |-> body],
      request |-> TRUE] : st \in ErrorStatuses, body \in ErrorBodies}
    \cup {[kind |-> "error", response |-> NoResponse, request |-> rq] :
            rq \in BOOLEAN}

\* the value of a detail in a boolean context
Truthy(detail) == detail.t = "array" \/ (detail.t = "string" /\ detail.s # "")

RECURSIVE JoinItems(_)
JoinItems(items) ==
    IF items = <<>> THEN ""
    ELSE "{\"msg\":\"" \o Head(items) \o "\"}"
         \o (IF Tail(items) = <<>> THEN "" ELSE ",")
         \o JoinItems(Tail(items))

\* JSON.stringify of a detail that is not a string
JSONStringify(detail) == "[" \o JoinItems(detail.items) \o "]"

\* statusMessages[status]: "" stands for undefined
statusMessages(st) ==
    CASE st = 400 -> "Invalid request. Please check your input."
      [] st = 401 -> "Authentication required. Please login."
      [] st = 403 -> "You do not have permission to perform this action."
      [] st = 404 -> "Resource not found."
      [] st = 409 -> "Conflict. This resource already exists."
      [] st = 422 -> "Validation error. Please check your input."
      [] st = 500 -> "Server error. Please try again later."
      [] st = 503 -> "Service unavailable. Please try again later."
      [] OTHER -> ""

\* (mutant) a detail is returned whenever the body has one, empty or not
getErrorMessageAnyDetail(error) ==
    IF error.response = NoResponse
    THEN IF error.request
         THEN "Network error. Please check your connection and try again."
         ELSE "An unexpected error occurred. Please try again."
    ELSE IF error.response.data.detail.t = "string"
         THEN error.response.data.detail.s
         ELSE JSONStringify(error.response.data.detail)

\* getErrorMessage(error)
getErrorMessage(error) ==
    IF error.response = NoResponse
    THEN IF error.request
         THEN "Network error. Please check your connection and try again."
         ELSE "An unexpected error occurred. Please try again."
    ELSE LET st == error.response.status
             data == error.response.data
         IN IF Truthy(data.detail)
            THEN IF data.detail.t = "string"
                 THEN data.detail.s
                 ELSE JSONStringify(data.detail)
            ELSE IF statusMessages(st) # ""
                 THEN statusMessages(st)
                 ELSE "Error " \o ToString(st) \o ": "
                      \o (IF data.message # "" THEN data.message
                          ELSE "An error occurred")

\* isNetworkError(error): !error.response && error.request, as JavaScript
\* evaluates it
isNetworkError(error) ==
    IF error.response # NoResponse THEN "false"
    ELSE IF error.request THEN "[object XMLHttpRequest]" ELSE "undefined"

\* isAuthError(error)
isAuthError(error) ==
    error.response # NoResponse /\ error.response.status \in {401, 403}

\* ApiService.handleError(error); status null is 0
handleError(error) ==
    [success |-> FALSE,
     error |-> getErrorMessage(error),
     status |-> IF error.response # NoResponse THEN error.response.status ELSE 0,
     isNetworkError |-> isNetworkError(error),
     isAuthError |-> isAuthError(error),
     originalError |-> error]

Methods == {"get", "post", "put", "delete"}

\* ApiService.get / post / put / delete: the request goes to the axios
\* instance
apiServiceRequest ==
    /\ apiService.pc = "idle"
    /\ \E m \in Methods : apiService' = [apiService EXCEPT !.pc = "pending", !.method = m]
    /\ UNCHANGED <<status, annotations, reviews, call, ncalls, reviewPage, shell>>
    /\ UNCHANGED <<dashboard, hook, executes, annotationPage>>

\* the axios instance settles the request.  A response is returned as
\* {success, data, status}; an error has passed the response interceptor
\* (on a 401 the stored token is removed and, off /login, the page is
\* loaded anew at /login) and is caught and returned by handleError
apiServiceSettles ==
    /\ apiService.pc = "pending"
    /\ \E settled \in AxiosResponses \cup AxiosErrors :
        /\ apiService' =
             [apiService EXCEPT
                !.pc = "returned",
                !.result = IF settled.kind = "response"
                           THEN [success |-> TRUE,
                                 data |-> settled.response.data,
                                 status |-> settled.response.status]
                           ELSE handleError(settled)]
        /\ IF settled.kind = "error" /\ settled.response.status = 401
           THEN /\ On401
                /\ IF location # "/login"
                   THEN PageLoad("/login")
                   ELSE UNCHANGED <<app, location, auth, loginCall, apiCall>>
           ELSE UNCHANGED shell
    /\ UNCHANGED <<status, annotations, reviews, call, ncalls, reviewPage>>
    /\ UNCHANGED <<dashboard, hook, executes, annotationPage>>

\* the caller has taken the result
apiServiceReturn ==
    /\ apiService.pc = "returned"
    /\ apiService' = NoRequest
    /\ UNCHANGED <<status, annotations, reviews, call, ncalls, reviewPage, shell>>
    /\ UNCHANGED <<dashboard, hook, executes, annotationPage>>

NextApiService ==
    \/ apiServiceRequest
    \/ apiServiceSettles
    \/ apiServiceReturn

SpecApiService == Init /\ [][NextApiService]_vars

(* --------- useApi (hooks/useApi.js) and the Dashboard page ------------- *)

\* useApi.execute before the await: setLoading(true), setError(null),
\* setData(null)
useApiStart(h) == [h EXCEPT !.loading = TRUE, !.error = "null", !.data = <<>>]

\* useApi.execute after the await: setData(result.data) or
\* setError(result.error), and setLoading(false) in the finally
useApiSettle(h, result) ==
    IF result.success
    THEN [h EXCEPT !.data = result.data, !.loading = FALSE]
    ELSE [h EXCEPT !.error = result.error, !.loading = FALSE]

\* what get_analytics_service() returns: the counts of the samples, in all
\* and by status
CountOf(st) == Cardinality({s \in DOMAIN status : status[s] = st})

Stats == <<Len(status), CountOf("pending"), CountOf("annotated"), CountOf("reviewed")>>

\* GET /analytics/ as the backend answers it: 401 without a token; with
\* a token the dependency can_view_analytics lets only administrators
\* through, the others get 403 with its detail
AnalyticsResponses(token) ==
    IF token.kind # "jwt"
    THEN {[kind |-> "error", response |-> [status |-> 401, data |-> NoData],
           request |-> TRUE]}
    ELSE IF RoleOf(token.sub) = "admin"
    THEN {[kind |-> "response", response |-> [status |-> 200, data |-> Stats],
           request |-> TRUE]}
    ELSE {[kind |-> "error",
           response |-> [status |-> 403,
                         data |-> [present |-> TRUE,
                                   detail |-> StringDetail("Only administrators can view analytics"),
                                   message |-> ""]],
           request |-> TRUE]}

\* the request fails without an answer of the backend: a network error or
\* the 30 seconds timeout of the axios instance
TransportFailures == {[kind |-> "error", response |-> NoResponse, request |-> TRUE]}

\* the Dashboard page is mounted although the router no longer renders it
DashboardStale ==
    /\ dashboard.pc # "unmounted"
    /\ app # "running" \/ View # Page("Dashboard")

\* the router renders the Dashboard page: first render, nothing fetched yet
DashboardMount ==
    /\ app = "running"
    /\ View = Page("Dashboard")
    /\ dashboard.pc = "unmounted"
    /\ dashboard' = [pc |-> "mounted", stats |-> HookMounted, http |-> 0]
    /\ UNCHANGED <<status, annotations, reviews, call, ncalls, reviewPage, shell>>
    /\ UNCHANGED <<apiService, hook, executes, annotationPage>>

\* the effect of Dashboard: fetchStats(), that is useApi.execute of
\* analyticsService.getAnalytics; it runs once, fetchStats is stable
DashboardFetchStats ==
    /\ ~DashboardStale
    /\ dashboard.pc = "mounted"
    /\ dashboard' = [dashboard EXCEPT !.pc = "fetching",
                                      !.stats = useApiStart(@)]
    /\ UNCHANGED <<status, annotations, reviews, call, ncalls, reviewPage, shell>>
    /\ UNCHANGED <<apiService, hook, executes, annotationPage>>

\* the request of fetchStats settles: apiService.get returns the response
\* or handleError(error), useApi stores data or error.  A 401 has passed
\* the response interceptor: the token is removed and /login is loaded
DashboardSettles ==
    /\ ~DashboardStale
    /\ dashboard.pc = "fetching"
    /\ \E settled \in AnalyticsResponses(localStorage) \cup TransportFailures :
        LET result == IF settled.kind = "response"
                      THEN [success |-> TRUE,
                            data |-> settled.response.data,
                            status |-> settled.response.status]
                      ELSE handleError(settled)
        IN /\ dashboard' = [pc |-> "settled",
                            stats |-> useApiSettle(dashboard.stats, result),
                            http |-> result.status]
           /\ IF result.status = 401
              THEN /\ On401
                   /\ PageLoad("/login")
              ELSE UNCHANGED shell
    /\ UNCHANGED <<status, annotations, reviews, call, ncalls, reviewPage>>
    /\ UNCHANGED <<apiService, hook, executes, annotationPage>>

\* React unmounts the page when the route changes or the tree goes; a
\* request still in flight settles into nothing
DashboardUnmount ==
    /\ DashboardStale
    /\ dashboard' = DashboardUnmounted
    /\ UNCHANGED <<status, annotations, reviews, call, ncalls, reviewPage, shell>>
    /\ UNCHANGED <<apiService, hook, executes, annotationPage>>

\* the application shell with the Dashboard page; a page that is no longer
\* rendered is unmounted before anything else happens
NextDashboard ==
    \/ ~DashboardStale /\ AuthProviderInit
    \/ ~DashboardStale /\ load
    \/ ~DashboardStale /\ navigate
    \/ ~DashboardStale /\ redirect
    \/ ~DashboardStale /\ LoginHandleSubmit
    \/ ~DashboardStale /\ loginSucceeds
    \/ ~DashboardStale /\ loginFails
    \/ ~DashboardStale /\ fetchCurrentUser
    \/ ~DashboardStale /\ logout
    \/ DashboardMount
    \/ DashboardFetchStats
    \/ DashboardSettles
    \/ DashboardUnmount

SpecDashboard == InitApp /\ [][NextDashboard]_vars

(* -------------- useApi and useMutation under overlapping calls --------- *)

HookKinds == {"useApi", "useMutation"}

\* how the apiCall of an execute ends: result.success, !result.success,
\* or an exception
Settlements == {"ok", "failed", "threw"}

\* useMutation.execute before the await: as useApi, and setSuccess(false)
useMutationStart(h) == [useApiStart(h) EXCEPT !.success = FALSE]

\* useMutation.execute after the await: setData and setSuccess(true), or
\* setError and setSuccess(false); setLoading(false) in the finally
useMutationSettle(h, result) ==
    IF result.success
    THEN [h EXCEPT !.data = result.data, !.success = TRUE, !.loading = FALSE]
    ELSE [h EXCEPT !.error = result.error, !.success = FALSE, !.loading = FALSE]

\* what the i-th apiCall resolves with, and the caught exception as the
\* catch branch turns it into an error message
ResultOf(i, how) ==
    CASE how = "ok" -> [success |-> TRUE, data |-> <<i>>]
      [] how = "failed" -> [success |-> FALSE, error |-> "Resource not found."]
      [] how = "threw" -> [success |-> FALSE, error |-> "An unexpected error occurred"]

\* a component that uses the hook is mounted
HookMount ==
    /\ hook.kind = "none"
    /\ \E kind \in HookKinds :
        hook' = [kind |-> kind, state |-> HookMounted, last |-> "mount"]
    /\ UNCHANGED <<status, annotations, reviews, call, ncalls, reviewPage, shell>>
    /\ UNCHANGED <<apiService, dashboard, executes, annotationPage>>

\* execute(...args) up to its await: the state is reset for the new call
\* and apiCall is called, whatever calls are still in flight
execute ==
    /\ hook.kind # "none"
    /\ Len(executes) < MaxExecutes
    /\ hook' = [hook EXCEPT
                  !.state = IF hook.kind = "useApi" THEN useApiStart(@)
                            ELSE useMutationStart(@),
                  !.last = "execute"]
    /\ executes' = Append(executes, "pending")
    /\ UNCHANGED <<status, annotations, reviews, call, ncalls, reviewPage, shell>>
    /\ UNCHANGED <<apiService, dashboard, annotationPage>>

\* the apiCall of the i-th execute settles and execute runs to its end
settle(i) ==
    /\ executes[i] = "pending"
    /\ \E how \in Settlements :
        /\ hook' = [hook EXCEPT
                      !.state = IF hook.kind = "useApi"
                                THEN useApiSettle(@, ResultOf(i, how))
                                ELSE useMutationSettle(@, ResultOf(i, how)),
                      !.last = "settle"]
        /\ executes' = [executes EXCEPT ![i] = how]
    /\ UNCHANGED <<status, annotations, reviews, call, ncalls, reviewPage, shell>>
    /\ UNCHANGED <<apiService, dashboard, annotationPage>>

\* reset(): setData(null), setError(null), setSuccess(false),
\* setLoading(false); the calls in flight go on
reset ==
    /\ hook.kind # "none"
    /\ hook.last # "mount"
    /\ hook' = [hook EXCEPT !.state = HookMounted, !.last = "reset"]
    /\ UNCHANGED <<status, annotations, reviews, call, ncalls, reviewPage, shell>>
    /\ UNCHANGED <<apiService, dashboard, executes, annotationPage>>

NextHooks ==
    \/ HookMount
    \/ execute
    \/ \E i \in DOMAIN executes : settle(i)
    \/ reset

SpecHooks == Init /\ [][NextHooks]_vars

(* ------------------ the Annotation page (pages/Annotation.jsx) --------- *)

\* the session of the browser the Annotation page is open in
AnnotationPageSession == "c1"

\* the users ProtectedRoute renders the Annotation page for
AnnotationPageUsers == {a \in Actors : RoleOf(a) \in {"annotator", "admin"}}

\* what React compares to decide on a re-render: the state of the
\* component and of its hooks
Rendered(p) == <<p.selectedSample, p.samples, p.submit, p.shown>>

\* GET /samples?status=pending as the backend answers it now
PendingSamples == {s \in DOMAIN status : status[s] = "pending"}

\* useMessage.showMessage(msg, type)
showMessage(msg, type) == [message |-> msg, type |-> type, visible |-> TRUE]

\* whether the effect with the dependencies [fetchPendingSamples] runs
\* after a render: useApi gets a new inline arrow function on every
\* render, useCallback([apiCall]) returns a new execute each time, so the
\* dependency has always changed
FetchEffectRuns == TRUE

\* the router renders the Annotation page: first render
AnnotationMount ==
    /\ annotationPage.pc = "unmounted"
    /\ annotationPage' = [AnnotationUnmounted EXCEPT !.pc = "mounted", !.effects = TRUE]
    /\ UNCHANGED <<status, annotations, reviews, call, ncalls, reviewPage, shell>>
    /\ UNCHANGED <<apiService, dashboard, hook, executes>>

\* the effects of the render just committed.  The first calls
\* fetchPendingSamples(); the second, if success, shows the message, clears
\* the selection, calls fetchPendingSamples() and resetSubmit(); the third,
\* if submitError, shows it and calls resetSubmit().  Every call of
\* fetchPendingSamples sends a request.  If a state has changed the
\* component renders again
AnnotationEffects ==
    /\ annotationPage.pc = "mounted"
    /\ annotationPage.effects
    /\ annotationPage.fetches + 2 <= MaxFetches
    /\ LET p == annotationPage
           first == IF FetchEffectRuns THEN 1 ELSE 0
           second == IF p.submit.success THEN 1 ELSE 0
           q == [p EXCEPT
                   !.samples = IF first + second > 0 THEN useApiStart(@) ELSE @,
                   !.selectedSample = IF p.submit.success THEN 0 ELSE @,
                   !.shown =
                       IF p.submit.error # "null"
                       THEN showMessage(p.submit.error, "error")
                       ELSE IF p.submit.success
                       THEN showMessage("Annotation submitted successfully!", "success")
                       ELSE @,
                   !.submit = IF p.submit.success \/ p.submit.error # "null"
                              THEN HookMounted ELSE @,
                   !.fetching = @ + first + second,
                   !.fetches = @ + first + second]
       IN annotationPage' = [q EXCEPT !.effects = Rendered(q) # Rendered(p)]
    /\ UNCHANGED <<status, annotations, reviews, call, ncalls, reviewPage, shell>>
    /\ UNCHANGED <<apiService, dashboard, hook, executes>>

\* a getSamplesByStatus('pending') request settles: useApi stores the
\* list, a new array, or the error, and sets loading false
AnnotationFetchSettles ==
    /\ annotationPage.pc = "mounted"
    /\ ~annotationPage.effects
    /\ annotationPage.fetching > 0
    /\ \E ok \in BOOLEAN :
        LET p == annotationPage
            result == IF ok THEN [success |-> TRUE, data |-> <<PendingSamples>>]
                      ELSE [success |-> FALSE,
                            error |-> getErrorMessage([kind |-> "error",
                                                       response |-> NoResponse,
                                                       request |-> TRUE])]
            q == [p EXCEPT !.samples = useApiSettle(@, result),
                           !.fetching = @ - 1]
        IN annotationPage' = [q EXCEPT !.effects = ok \/ Rendered(q) # Rendered(p)]
    /\ UNCHANGED <<status, annotations, reviews, call, ncalls, reviewPage, shell>>
    /\ UNCHANGED <<apiService, dashboard, hook, executes>>

\* a click on a sample of the list.  The list is on screen from the render
\* that follows a settled fetch until the render that follows the next
\* fetchPendingSamples(), while loading the page shows "Loading..." only
selectSample ==
    /\ annotationPage.pc = "mounted"
    /\ ~annotationPage.samples.loading
    /\ annotationPage.samples.data # <<>>
    /\ \E s \in annotationPage.samples.data[1] :
        /\ s # annotationPage.selectedSample
        /\ annotationPage' = [annotationPage EXCEPT !.selectedSample = s,
                                                    !.effects = TRUE]
    /\ UNCHANGED <<status, annotations, reviews, call, ncalls, reviewPage, shell>>
    /\ UNCHANGED <<apiService, dashboard, hook, executes>>

\* Annotation.handleSubmit, from the form that is rendered when a sample
\* is selected and whose button is disabled while submitting:
\* clearMessage(), submitAnnotation({sample_id, label})
AnnotationHandleSubmit ==
    /\ annotationPage.pc = "mounted"
    /\ ~annotationPage.samples.loading
    /\ annotationPage.selectedSample # 0
    /\ ~annotationPage.submit.loading
    /\ annotationPage' =
         [annotationPage EXCEPT !.shown = [@ EXCEPT !.visible = FALSE, !.message = ""],
                                !.submit = useMutationStart(@),
                                !.effects = TRUE]
    /\ \E actor \in AnnotationPageUsers, label \in Labels :
        Issue(AnnotationPageSession,
              Request("submitAnnotation", annotationPage.selectedSample, actor,
                      label, "none", Null))
    /\ UNCHANGED <<reviewPage, shell, apiService, dashboard, hook, executes>>

\* the answer to the submission reaches useMutation
AnnotationSubmitSettles ==
    /\ annotationPage.pc = "mounted"
    /\ ~annotationPage.effects
    /\ call[AnnotationPageSession].pc = "done"
    /\ LET r == call[AnnotationPageSession].result
           result == IF r = "OK"
                     THEN [success |-> TRUE, data |-> <<call[AnnotationPageSession].ret>>]
                     ELSE [success |-> FALSE, error |-> r]
       IN annotationPage' =
            [annotationPage EXCEPT !.submit = useMutationSettle(@, result),
                                   !.effects = TRUE]
    /\ call' = [call EXCEPT ![AnnotationPageSession] = Idle]
    /\ UNCHANGED <<status, annotations, reviews, ncalls, reviewPage, shell>>
    /\ UNCHANGED <<apiService, dashboard, hook, executes>>

\* the Annotation page in one browser over the engine
NextAnnotationPage ==
    \/ createSample
    \/ AnnotationMount
    \/ AnnotationEffects
    \/ AnnotationFetchSettles
    \/ selectSample
    \/ AnnotationHandleSubmit
    \/ AnnotationSubmitSettles
    \/ ReadWithLock(AnnotationPageSession)
    \/ InsertRow(AnnotationPageSession)
    \/ Commit(AnnotationPageSession)

SpecAnnotationPage == Init /\ [][NextAnnotationPage]_vars

(* ---------------------- racing calls (C1, C2) -------------------------- *)

Done(c) == call[c].pc = "done"

Succeeded(c) == Done(c) /\ call[c].result = "OK"

\* the sample of an answered request that passed the engine boundary
SampleOf(c) == TargetSample(call[c].op, call[c].target)

\* sessions c and d have both been answered on requests of kind op that
\* were issued on the same sample s while its status was st and its version
\* was the same: neither request saw a write of the other when it was issued
Raced(c, d, op, st, s) ==
    /\ c # d
    /\ Done(c) /\ Done(d)
    /\ call[c].op = op /\ call[d].op = op
    /\ call[c].st0 = st /\ call[d].st0 = st
    /\ SampleOf(c) = s /\ SampleOf(d) = s
    /\ call[c].ver0 = call[d].ver0

NumSucceeded(c, d) ==
    (IF Succeeded(c) THEN 1 ELSE 0) + (IF Succeeded(d) THEN 1 ELSE 0)

\* no third request took part: every write to s since the two requests were
\* issued is the write of one of them, and no other session has a request
\* in flight on s
OnlyThese(c, d, s) ==
    /\ Version(s) - call[c].ver0 = NumSucceeded(c, d)
    /\ \A e \in Callers \ {c, d} :
            call[e].pc \in {"waiting", "locked", "inserted"} => SampleOf(e) # s

\* of the two, exactly one succeeded and the other was answered InvalidState
OneWinsOtherInvalidState(c, d) ==
    \/ Succeeded(c) /\ call[d].result = "InvalidState"
    \/ Succeeded(d) /\ call[c].result = "InvalidState"

ApprovedReviewsOf(s) == {r \in ReviewsOf(s) : reviews[r].decision = "approved"}

\* C3: in every reachable state, also between the two writes of a
\* transaction and after a transaction that failed or was interrupted there,
\* no sample is Annotated without an Annotation row and no sample is Reviewed
\* without an approving Review on one of its annotations.
C3_StatusHasItsRow ==
    \A s \in DOMAIN status :
        /\ status[s] = "annotated" => AnnotationsOf(s) # {}
        /\ status[s] = "reviewed" => ApprovedReviewsOf(s) # {}

\* a transaction on s was interrupted between its writes and rolled back
Interrupted(c) ==
    Done(c) /\ call[c].result = "TransientStoreError" /\ call[c].sample # 0

\* an approving review was interrupted: its sample is still Annotated, with
\* its Annotation row and no approving Review, while another transaction
\* stands between its two writes
C3_Witness ==
    \E c, d \in Callers :
        /\ Interrupted(c)
        /\ call[c].op = "submitReview" /\ call[c].decision = "approved"
        /\ status[call[c].sample] = "annotated"
        /\ ApprovedReviewsOf(call[c].sample) = {}
        /\ call[d].pc = "inserted"

(* ------------------ rejected preconditions (C4, C5) -------------------- *)

\* the step in which the waiting request of session c is answered or goes on
LeavesWaiting(c) == call[c].pc = "waiting" /\ call'[c].pc # "waiting"

AnsweredInvalidState(c) ==
    /\ call'[c].pc = "done"
    /\ call'[c].result = "InvalidState"
    /\ status' = status
    /\ annotations' = annotations
    /\ reviews' = reviews

CommitsOn(c, s) ==
    /\ call[c].pc = "inserted"
    /\ call[c].sample = s
    /\ call'[c].pc = "done"
    /\ call'[c].result = "OK"

\* C7: the status of a sample changes only in the commit of a successful
\* request, and only Pending -> Annotated by submitAnnotation, Annotated ->
\* Reviewed by an Approved review, Annotated -> Pending by a Rejected review.
C7_ThreeEdges ==
    [][\A s \in DOMAIN status :
        status'[s] # status[s] =>
            \E c \in Callers :
                /\ CommitsOn(c, s)
                /\ \/ /\ call[c].op = "submitAnnotation"
                      /\ status[s] = "pending" /\ status'[s] = "annotated"
                   \/ /\ call[c].op = "submitReview"
                      /\ call[c].decision = "approved"
                      /\ status[s] = "annotated" /\ status'[s] = "reviewed"
                   \/ /\ call[c].op = "submitReview"
                      /\ call[c].decision = "rejected"
                      /\ status[s] = "annotated" /\ status'[s] = "pending"]_vars

\* a sample went Pending -> Annotated -> Pending: the rejecting review has
\* just been committed
C7_Witness ==
    \E c \in Callers :
        /\ Succeeded(c) /\ call[c].op = "submitReview"
        /\ call[c].decision = "rejected"
        /\ call[c].st0 = "annotated"
        /\ status[call[c].sample] = "pending"

(* --------------------- the live annotation (C8) ------------------------ *)

Rejected(a) ==
    \E r \in DOMAIN reviews :
        reviews[r].annotation_id = a /\ reviews[r].decision = "rejected"

\* the live annotations of a sample: those with no Rejected review
Live(s) == {a \in AnnotationsOf(s) : ~Rejected(a)}

\* C8: a sample that is Annotated or Reviewed has exactly one live
\* Annotation row (one with no Rejected review), a Pending sample has none,
\* whatever annotation of the sample the reviews name.
C8_OneLiveAnnotation ==
    \A s \in DOMAIN status :
        /\ status[s] \in {"annotated", "reviewed"} => Cardinality(Live(s)) = 1
        /\ status[s] = "pending" => Live(s) = {}

(* ------------------- rejection keeps history (C9) ---------------------- *)

\* C9: a successful Rejected review sets the sample to Pending and changes
\* no Annotation row; no step deletes or modifies an Annotation row; a
\* submitAnnotation that then reads the Pending sample goes on to commit,
\* succeeds and adds one further row for that sample.
C9_RejectKeepsHistory ==
    [][/\ \A a \in DOMAIN annotations :
            a \in DOMAIN annotations' /\ annotations'[a] = annotations[a]
       /\ \A c \in Callers : \A s \in DOMAIN status :
            (CommitsOn(c, s) /\ call[c].op = "submitReview"
                             /\ call[c].decision = "rejected")
                => status'[s] = "pending" /\ annotations' = annotations
       /\ \A c \in Callers :
            (/\ LeavesWaiting(c)
             /\ call[c].op = "submitAnnotation"
             /\ call[c].target \in DOMAIN status
             /\ status[call[c].target] = "pending")
                => call'[c].pc = "locked"
       /\ \A c \in Callers :
            (/\ call[c].pc \in {"locked", "inserted"}
             /\ call'[c].pc = "done"
             /\ call[c].op = "submitAnnotation")
                => /\ call'[c].result = "OK"
                   /\ Len(annotations') = Len(annotations) + 1
                   /\ annotations'[call'[c].ret].sample_id = call[c].target]_vars

\* after a rejection a further annotation of the sample has succeeded: the
\* sample has its rejected row and the new one
C9_Witness ==
    \E c \in Callers :
        /\ Succeeded(c) /\ call[c].op = "submitAnnotation"
        /\ Cardinality(AnnotationsOf(call[c].target)) = 2
        /\ \E a \in AnnotationsOf(call[c].target) : a < call[c].ret /\ Rejected(a)
        /\ status[call[c].target] = "annotated"

(* --------------------------- round trip (C10) -------------------------- *)

RoundTripStatuses == <<"annotated", "pending", "annotated", "reviewed">>

\* C10: from a Pending sample without rows, submitAnnotation, a Rejected
\* review with feedback, submitAnnotation, an Approved review without
\* feedback: every call succeeds, the status is Annotated, Pending,
\* Annotated, Reviewed after the calls, and the sample ends with exactly 2
\* Annotation rows and 2 Review rows, one Rejected and one Approved.
C10_RoundTrip ==
    /\ \A c \in Callers : Done(c) => call[c].result = "OK"
    /\ (Quiescent /\ ncalls \in 1..4)
            => status[RoundTripSample] = RoundTripStatuses[ncalls]
    /\ (Quiescent /\ ncalls = 4)
            => /\ Cardinality(AnnotationsOf(RoundTripSample)) = 2
               /\ Cardinality(ReviewsOf(RoundTripSample)) = 2
               /\ Cardinality(ApprovedReviewsOf(RoundTripSample)) = 1
               /\ Cardinality({r \in ReviewsOf(RoundTripSample) :
                        reviews[r].decision = "rejected"}) = 1

C10_Witness ==
    /\ Quiescent
    /\ ncalls = 4
    /\ status[RoundTripSample] = "reviewed"
    /\ Len(annotations) = 2 /\ Len(reviews) = 2

(* -------------------- feedback on a rejection (C11) -------------------- *)

\* the feedback is empty, null or white space only
Blank(fb) == ~fb.given \/ \A i \in DOMAIN fb.text : fb.text[i] = " "

\* the step issues, in session c, a Rejected review with blank feedback
IssuesBlankReject(c) ==
    /\ call[c].pc = "idle" /\ call'[c].pc # "idle"
    /\ call'[c].op = "submitReview"
    /\ call'[c].decision = "rejected"
    /\ Blank(call'[c].feedback)

\* the request of session c is refused with err in the step it is issued
\* in; no row is created and no status changes
RefusedWith(c, err) ==
    /\ call'[c].pc = "done"
    /\ call'[c].result = err
    /\ status' = status
    /\ annotations' = annotations
    /\ reviews' = reviews

\* the request of session c is an Approved review without feedback, made by
\* a reviewer
ApprovalWithoutFeedback(r) ==
    /\ r.op = "submitReview"
    /\ r.decision = "approved"
    /\ r.feedback = Null
    /\ RoleOf(r.actor) = "reviewer"

\* an approval without feedback by a reviewer is not refused, goes on when it
\* reads an Annotated sample, and then commits its Review
ApprovalSucceeds(c) ==
    /\ (call[c].pc = "idle" /\ call'[c].pc # "idle" /\ ApprovalWithoutFeedback(call'[c]))
            => call'[c].pc = "waiting"
    /\ (/\ LeavesWaiting(c)
        /\ ApprovalWithoutFeedback(call[c])
        /\ call[c].target \in DOMAIN annotations
        /\ status[annotations[call[c].target].sample_id] = "annotated")
            => call'[c].pc = "locked"
    /\ (/\ call[c].pc \in {"locked", "inserted"}
        /\ call'[c].pc = "done"
        /\ ApprovalWithoutFeedback(call[c]))
            => /\ call'[c].result = "OK"
               /\ Len(reviews') = Len(reviews) + 1
               /\ reviews'[call'[c].ret].annotation_id = call[c].target
               /\ reviews'[call'[c].ret].decision = "approved"
               /\ status'[call[c].sample] = "reviewed"

\* while the text of the Review page is blank the page sends no reject
\* request; when its reject action shows its error, nothing is sent
PageSendsNoBlankReject ==
    /\ (/\ \A i \in DOMAIN reviewPage.feedback : reviewPage.feedback[i] = " "
        /\ call'[ReviewPageSession] # call[ReviewPageSession]
        /\ call[ReviewPageSession].pc = "idle")
            => call'[ReviewPageSession].decision # "rejected"
    /\ (/\ reviewPage'.message = "Feedback is required for rejection"
        /\ reviewPage.message # reviewPage'.message)
            => UNCHANGED <<status, annotations, reviews, call, ncalls>>

Errors == {"NotFound", "InvalidState", "ValidationError", "Forbidden",
           "TransientStoreError"}

\* the step in which the request of session c is answered with an error
AnsweredWithError(c) ==
    /\ call[c].pc # "done"
    /\ call'[c].pc = "done"
    /\ call'[c].result \in Errors

\* the step adds a sample and changes nothing else of the store
AddsSample ==
    /\ status' = Append(status, "pending")
    /\ annotations' = annotations
    /\ reviews' = reviews

\* C12: the step in which a submitAnnotation or submitReview call is answered
\* with an error (NotFound, InvalidState, ValidationError, Forbidden or
\* TransientStoreError) leaves the samples with their statuses, the
\* Annotation rows and the Review rows as they were; the only steps that
\* write to the store are the creation of a sample and the commit of a call
\* that succeeds, so a call that failed has left no row a retry could
\* duplicate, and it returns no row.
C12_ErrorsWriteNothing ==
    [][/\ \A c \in Callers :
            AnsweredWithError(c) =>
                /\ status' = status
                /\ annotations' = annotations
                /\ reviews' = reviews
                /\ call'[c].ret = 0
       /\ <<status, annotations, reviews>>' # <<status, annotations, reviews>> =>
            \/ AddsSample
            \/ \E c \in Callers : CommitsOn(c, call[c].sample)]_vars

\* a submitAnnotation was interrupted between its two writes and answered
\* TransientStoreError: its sample is still Pending and has no row
C12_Witness ==
    \E c \in Callers :
        /\ Interrupted(c)
        /\ call[c].op = "submitAnnotation"
        /\ status[call[c].sample] = "pending"
        /\ AnnotationsOf(call[c].sample) = {}

(* ---------------------- roles, server side (C13) ----------------------- *)

\* the step issues a request in session c
Issues(c) == call[c].pc = "idle" /\ call'[c].pc # "idle"

C14_StatusDomain ==
    /\ [](\A s \in DOMAIN status : status[s] \in Statuses)
    /\ [][Len(status') # Len(status) =>
            /\ Len(status') = Len(status) + 1
            /\ status'[Len(status')] = "pending"
            /\ \A s \in DOMAIN status : status'[s] = status[s]]_vars

\* one sample has been through the whole workflow and is Reviewed, another
\* was created after that and is Pending, without rows
C14_Witness ==
    \E s, t \in DOMAIN status :
        /\ s < t
        /\ status[s] = "reviewed"
        /\ status[t] = "pending"
        /\ AnnotationsOf(t) = {}
        /\ \E c \in Callers : Succeeded(c) /\ call[c].sample = s /\ call[c].ver0 = 1
                              /\ call[c].st0 = "annotated"

(* --------------------- independent samples (C15) ----------------------- *)

\* the rows of sample t are the same before and after the step
RowsOfSampleKept(t) ==
    /\ {a \in DOMAIN annotations' : annotations'[a].sample_id = t} = AnnotationsOf(t)
    /\ \A a \in AnnotationsOf(t) : annotations'[a] = annotations[a]
    /\ {r \in DOMAIN reviews' : reviews'[r].annotation_id \in AnnotationsOf(t)}
            = ReviewsOf(t)
    /\ \A r \in ReviewsOf(t) : reviews'[r] = reviews[r]

\* a step of the call of session c, whatever its outcome, leaves every
\* sample other than its own as it was
OtherSamplesKept(c) ==
    (call'[c] # call[c] /\ call[c].pc \in {"waiting", "locked", "inserted"}) =>
        \A t \in DOMAIN status \ {SampleOf(c)} :
            status'[t] = status[t] /\ RowsOfSampleKept(t)

\* the request of session c does not wait for a lock held on another sample
NoSharedLock(c) ==
    (/\ call[c].pc = "waiting"
     /\ SampleOf(c) # 0
     /\ \A d \in Callers \ {c} :
            call[d].pc \in {"locked", "inserted"} => call[d].sample # SampleOf(c))
        => ENABLED ReadWithLock(c)

\* the request of session c was valid for its sample when it was issued
\* and nothing but itself has written to that sample since: it is not
\* answered InvalidState, whatever was done to other samples meanwhile
NoInvalidStateFromOthers(c) ==
    (/\ Done(c)
     /\ call[c].st0 # "none"
     /\ StatusAllows(call[c].op, call[c].st0)
     /\ Version(SampleOf(c)) = call[c].ver0 + (IF Succeeded(c) THEN 1 ELSE 0))
        => Succeeded(c)

\* C15: a submitAnnotation or submitReview call on sample s, successful or
\* not, leaves the status and the rows of every other sample unchanged; a
\* call never waits for a lock held on another sample, and a call that is
\* valid for its own sample succeeds whatever calls on other samples are
\* interleaved with it.
C15_SamplesIndependent ==
    /\ [](\A c \in Callers : NoSharedLock(c) /\ NoInvalidStateFromOthers(c))
    /\ [][\A c \in Callers : OtherSamplesKept(c)]_vars

\* a review on one sample has succeeded while the transaction of an
\* annotation on another sample stands between its two writes
C15_Witness ==
    \E c, d \in Callers :
        /\ Succeeded(c) /\ call[c].op = "submitReview"
        /\ call[d].pc = "inserted" /\ call[d].op = "submitAnnotation"
        /\ call[d].sample # call[c].sample
        /\ call[d].ver0 = 0
        /\ status[call[d].sample] = "pending"

(* ------------------------- termination (C16) --------------------------- *)

InFlight(c) == call[c].pc \in {"waiting", "locked", "inserted"}

\* C16: every call that is in flight is eventually answered; a call that
\* waited on an existing sample is answered with success, InvalidState or
\* TransientStoreError; an answered call is not started again by the engine:
\* it stays answered until its caller takes the answer.
C16_EveryCallReturns ==
    /\ \A c \in Callers : InFlight(c) ~> Done(c)
    /\ [][\A c \in Callers :
            /\ (InFlight(c) /\ SampleOf(c) # 0 /\ call'[c].pc = "done")
                    => call'[c].result \in {"OK", "InvalidState", "TransientStoreError"}
            /\ Done(c) => (call'[c] = call[c] \/ call'[c] = Idle)]_vars

\* a call that waited for the row lock held by a concurrent transaction on
\* its sample has been answered TransientStoreError, the other transaction
\* still between its writes
C16_Witness ==
    \E c, d \in Callers :
        /\ Done(c) /\ call[c].result = "TransientStoreError"
        /\ call[c].sample = 0
        /\ call[d].pc = "inserted"
        /\ call[d].sample = SampleOf(c)

(* ------------------------ pages by role (C17) -------------------------- *)

\* the protected pages the README gives each role
PagesOfRole(role) ==
    CASE role = "annotator" -> {"Dashboard", "Projects", "Annotation"}
      [] role = "reviewer" -> {"Dashboard", "Projects", "Review"}
      [] role = "admin" -> {"Dashboard", "Projects", "Analytics"}
      [] OTHER -> {}

\* the page of a path under "/"
PageOfPath(path) ==
    CASE path = "/dashboard" -> "Dashboard"
      [] path = "/projects" -> "Projects"
      [] path = "/annotation" -> "Annotation"
      [] path = "/review" -> "Review"
      [] path = "/analytics" -> "Analytics"
      [] OTHER -> "none"

\* C17: a protected page is rendered only for a user whose role has it: an
\* annotator renders only Dashboard, Projects and Annotation, a reviewer only
\* Dashboard, Projects and Review, Analytics is rendered for an admin only,
\* Annotation for an annotator only and Review for a reviewer only; an
\* authenticated user at the path of a page the role does not have is
\* redirected to /dashboard.
C17_PagesByRole ==
    /\ (View.kind = "page" /\ View.name \in ProtectedPages)
            => View.name \in PagesOfRole(UserRole)
    /\ (/\ app = "running" /\ isAuthenticated /\ ~auth.loading
        /\ PageOfPath(location) \in ProtectedPages \ PagesOfRole(UserRole))
            => View = Navigate("/dashboard")

(* -------------------- no page without a login (C18) -------------------- *)

\* C18: a protected page is rendered only while user and token are both
\* non-null; once loading is false, at the path of a protected route an
\* unauthenticated session is redirected to /login, and at /login or
\* /register an authenticated session is redirected to /dashboard.
C18_NoPageWithoutLogin ==
    /\ (View.kind = "page" /\ View.name \in ProtectedPages)
            => auth.user # "null" /\ auth.token # NoToken
    /\ (/\ app # "crashed" /\ ~auth.loading
        /\ auth.user = "null" \/ auth.token = NoToken
        /\ location \in ProtectedPaths)
            => View = Navigate("/login")
    /\ (/\ app # "crashed"
        /\ auth.user # "null" /\ auth.token # NoToken
        /\ location \in {"/login", "/register"})
            => View = Navigate("/dashboard")

\* a session with a user but no token (a logout overtaken by the answer of
\* /auth/me) stands at /review, loading false: it is being sent to /login
C18_Witness ==
    /\ app = "running"
    /\ ~auth.loading
    /\ auth.user # "null" /\ auth.token = NoToken
    /\ location = "/review"
    /\ View = Navigate("/login")

(* ------------------------------ login (C19) ---------------------------- *)

\* the step in which login(email, password) returns without throwing
LoginResolves == loginCall.pc = "me" /\ loginCall'.pc = "idle" /\ app' = "running"

\* the step in which login throws: /auth/login has refused or failed
LoginThrows == loginCall.pc = "login" /\ loginCall'.pc = "idle" /\ app' = "running"

\* C19: when login resolves without throwing, the context user and token
\* are non-null and localStorage holds that token; when the credentials are
\* rejected login throws and the auth state stays unauthenticated.
C19_LoginAuthenticates ==
    [][/\ LoginResolves =>
            /\ auth'.user # "null"
            /\ auth'.token # NoToken
            /\ localStorage' = auth'.token
       /\ (loginCall.pc = "login" /\ loginCall.account = "nobody" /\ loginCall' # loginCall)
            => LoginThrows \/ app' = "starting"
       /\ LoginThrows => (auth' = auth /\ (isAuthenticated' <=> isAuthenticated))]_vars

(* --------------------------- 401 responses (C20) ----------------------- *)

\* C20: after a 401 response the token is gone from localStorage and the
\* session is unauthenticated until a new login; the step that handles the
\* 401 takes the browser to /login unless it is there already.
C20_LoggedOutAfter401 ==
    /\ [](got401 => (localStorage = NoToken /\ ~isAuthenticated))
    /\ [][(got401' /\ ~got401 /\ location # "/login") => location' = "/login"]_vars

(* ------------------ start with an unusable token (C21) ----------------- *)

\* the application is starting and localStorage holds a token that cannot
\* be decoded or whose exp is in the past
StartsWithUnusableToken ==
    /\ app = "starting"
    /\ \/ localStorage.kind = "garbage"
       \/ localStorage.kind = "jwt" /\ localStorage.exp = "past"

\* what an unauthenticated visitor may be shown or sent to
ShownToVisitor ==
    {Page("Login"), Page("Register"), Navigate("/login"), Navigate("/dashboard")}

\* C21: when the application starts with a stored token that is expired or
\* cannot be decoded, the mount effect removes the token from localStorage,
\* leaves user and context token null, starts no request to the backend and
\* sets loading to false, so that a protected path redirects to /login.
C21_UnusableTokenAtStart ==
    [][(StartsWithUnusableToken /\ app' # "starting") =>
            /\ app' = "running"
            /\ localStorage' = NoToken
            /\ auth'.user = "null" /\ auth'.token = NoToken
            /\ ~auth'.loading
            /\ loginCall' = NoLogin /\ apiCall' = NoApiCall
            /\ View' \in ShownToVisitor
            /\ location' \in ProtectedPaths => View' = Navigate("/login")]_vars

\* the mount effect has run on an unusable token and the visitor has been
\* sent to /login
C21_Witness ==
    /\ app = "running"
    /\ auth.storedToken.kind = "garbage" \/ auth.storedToken.exp = "past"
    /\ location = "/login"
    /\ View = Page("Login")
    /\ localStorage = NoToken

(* ------------------------------ logout (C22) --------------------------- *)

\* nobody is logged in: nothing of a session is left in the context or in
\* localStorage
LoggedOut ==
    /\ auth.user = "null"
    /\ auth.token = NoToken
    /\ localStorage = NoToken
    /\ ~isAuthenticated

\* login's getCurrentUser request is in flight and logout() has been called
\* since it was sent: loginSucceeds had set user and token
LoggedOutWhileFetching ==
    /\ loginCall.pc = "me"
    /\ auth.user = "null"
    /\ auth.token = NoToken

\* C22: after logout() the context user and token are null, localStorage
\* holds no token and isAuthenticated is false, and this is still so when a
\* getCurrentUser request that was started before the logout completes.
C22_LogoutIsFinal ==
    [][/\ logout => LoggedOut'
       /\ (LoggedOutWhileFetching /\ loginCall'.pc # "me") => LoggedOut']_vars

(* ---------------- one review per annotation (C25) ---------------------- *)

\* the Review rows that name annotation a
ReviewsOfAnnotation(a) == {r \in DOMAIN reviews : reviews[r].annotation_id = a}

\* C25: in every reachable state each Annotation row has at most one Review
\* row, also after submitReview calls that name an older annotation of a
\* sample that was re-annotated and is Annotated again.
C25_OneReviewPerAnnotation ==
    \A a \in DOMAIN annotations : Cardinality(ReviewsOfAnnotation(a)) <= 1

(* ------------------- loading ends after a start (C26) ------------------ *)

\* C26: after an application start, whatever localStorage holds (no token,
\* an expired, an undecodable or a valid token), AuthProvider's loading
\* becomes false, so that ProtectedRoute stops rendering the loading state.
C26_LoadingEnds == (app = "starting") ~> (~auth.loading /\ View # Loading)

(* ------------------ the service layer's format (C23) ------------------- *)

\* a call of apiService has returned
Returned == apiService.pc = "returned"

\* C23: every apiService get, post, put and delete call resolves with an
\* object of one format: success true with the response data and status on
\* an HTTP success; success false with a non-empty error message on any
\* failure (network error, 4xx, 5xx), isAuthError being true exactly for
\* the statuses 401 and 403.  A pending call always settles by returning.
C23_ConsistentResult ==
    /\ [](Returned =>
            IF apiService.result.success
            THEN /\ apiService.result.status \in SuccessStatuses
                 /\ DOMAIN apiService.result = {"success", "data", "status"}
            ELSE /\ apiService.result.error # ""
                 /\ apiService.result.isAuthError
                        <=> apiService.result.status \in {401, 403}
                 /\ apiService.result.status \in ErrorStatuses \cup {0}
                 /\ apiService.result.status = 0
                        <=> apiService.result.originalError.response = NoResponse)
    /\ [][apiService.pc = "pending" /\ apiService' # apiService
            => Returned' /\ apiService'.method = apiService.method]_vars

\* a call has returned for a 403 whose body has no detail
C23_Witness ==
    /\ Returned
    /\ ~apiService.result.success
    /\ apiService.result.status = 403
    /\ apiService.result.isAuthError
    /\ apiService.result.error = "You do not have permission to perform this action."

(* --------------------- the Dashboard's statistics (C24) ---------------- *)

\* the Dashboard is rendered and the backend has answered its request
DashboardAnswered ==
    /\ app = "running"
    /\ View = Page("Dashboard")
    /\ dashboard.pc = "settled"
    /\ dashboard.http # 0

\* the statistics overview is displayed: no loading text, no error
\* message, the stats grid rendered
StatsDisplayed ==
    /\ ~dashboard.stats.loading
    /\ dashboard.stats.error = "null"
    /\ dashboard.stats.data # <<>>

\* C24: for every authenticated user, of whatever role, the Dashboard ends
\* with the statistics overview displayed, not with an error, once the
\* backend has answered.
C24_DashboardShowsStats == DashboardAnswered => StatsDisplayed

(* --------------- overlapping calls of useMutation (C27) ---------------- *)

\* some execute call has not settled
SomePending == \E i \in DOMAIN executes : executes[i] = "pending"

\* calls were made, all have settled, and nothing was reset since
AllSettled == executes # <<>> /\ ~SomePending /\ hook.last = "settle"

\* the execute call that started last
LastStarted == executes[Len(executes)]

\* C27: under any interleaving of overlapping execute calls and reset the
\* state of useMutation never has success true together with an error, and
\* when all calls have settled success is true exactly when the call that
\* started last succeeded.
C27_MutationStateConsistent ==
    hook.kind = "useMutation" =>
        /\ ~(hook.state.success /\ hook.state.error # "null")
        /\ AllSettled => (hook.state.success <=> LastStarted = "ok")

(* ------------------- loading and data of the hooks (C28) --------------- *)

\* C28: for useApi and useMutation loading is true whenever an execute call
\* is in flight and false when none is (as long as reset() has not just
\* cleared the state), and the data held when all calls have settled is the
\* result of the call that started last.
C28_LoadingAndLatestData ==
    hook.kind # "none" =>
        /\ hook.last # "reset" => (hook.state.loading <=> SomePending)
        /\ AllSettled =>
             hook.state.data = IF LastStarted = "ok" THEN <<Len(executes)>> ELSE <<>>

(* -------------- the fetches of the Annotation page (C29) --------------- *)

\* the submissions of the page that succeeded: nobody else annotates
SuccessfulSubmissions == Len(annotations)

\* C29: the Annotation page fetches the pending samples once on mount and
\* once after each successful submission; the re-renders its own fetch
\* causes do not trigger the fetch again.
C29_FetchOncePerCause ==
    annotationPage.pc = "mounted" =>
        annotationPage.fetches <= 1 + SuccessfulSubmissions

=============================================================================
